---- MODULE Spec2Model ----
(***************************************************************************)
(* A model of the Plant resource of server/app.py: the validator           *)
(* validate_plant_data and the five request handlers Plants.get,           *)
(* Plants.post, PlantByID.get, PlantByID.patch and PlantByID.delete, run   *)
(* one whole request at a time against the 'plants' table.                 *)
(*                                                                         *)
(* JSON values are records [t, n, s]: t is the JSON type, n the number (a  *)
(* price is counted in hundredths), s the string as a sequence of          *)
(* characters.  A JSON object is a function from its keys to JSON values.  *)
(***************************************************************************)
EXTENDS Integers, Sequences, FiniteSets, TLC

\* Largest id the model lets the table hold.
MaxId == 2

\* id=1 and price=9.99 (in hundredths) of the seeded test plant.
SeedId == 1
SeedPrice == 999

VARIABLES
    plants,       \* the committed rows of table 'plants': id -> row
    tableExists,  \* whether table 'plants' exists in the database
    maxId,        \* the largest id the table ever held (the store's id generator)
    last,         \* the request handled last: [op, id, data, outcome]
    resp,         \* the response to it
    created,      \* history: number of Creates answered 201
    removed,      \* history: number of Deletes answered 204
    deleted       \* history: the ids whose Delete was answered 204

vars == <<plants, tableExists, maxId, last, resp, created, removed, deleted>>

----------------------------------------------------------------------------
(* JSON values *)

Str(s) == [t |-> "str", n |-> 0, s |-> s]
Num(n) == [t |-> "num", n |-> n, s |-> <<>>]
Bool(b) == [t |-> "bool", n |-> IF b THEN 1 ELSE 0, s |-> <<>>]
Null == [t |-> "null", n |-> 0, s |-> <<>>]
\* marks a key the JSON object does not have (used only to build objects)
Absent == [t |-> "absent", n |-> 0, s |-> <<>>]

EmptyBody == <<>>

\* str.strip(): leading and trailing whitespace removed
IsSpace(c) == c \in {" ", "\t", "\n"}

RECURSIVE lstrip(_)
lstrip(s) ==
    IF s = <<>> THEN s
    ELSE IF IsSpace(Head(s)) THEN lstrip(Tail(s)) ELSE s

RECURSIVE rstrip(_)
rstrip(s) ==
    IF s = <<>> THEN s
    ELSE IF IsSpace(s[Len(s)]) THEN rstrip(SubSeq(s, 1, Len(s) - 1)) ELSE s

strip(s) == rstrip(lstrip(s))

\* isinstance(v, (int, float)); a Python bool is an int
IsIntOrFloat(v) == v.t \in {"num", "bool"}

----------------------------------------------------------------------------
(* validate_plant_data *)

required_fields == {"name", "image", "price"}

\* data.get('name', '').strip() raises AttributeError when the value is no str
validate_raises(data) ==
    "name" \in DOMAIN data /\ data["name"].t # "str"

\* variant: the name is measured without strip()
NameEmptyNoStrip(data) ==
    "name" \in DOMAIN data /\ Len(data["name"].s) = 0

\* 'name' in data and len(data.get('name', '').strip()) == 0
NameEmpty(data) ==
    "name" \in DOMAIN data /\ Len(strip(data["name"].s)) = 0

\* 'price' in data and not isinstance(data['price'], (int, float))
PriceNotNumber(data) ==
    "price" \in DOMAIN data /\ ~IsIntOrFloat(data["price"])

\* the required fields the loop finds missing
MissingFields(data, partial) ==
    IF partial THEN {} ELSE {f \in required_fields : f \notin DOMAIN data}

\* the errors dict; the empty dict stands for the None the function returns
validate_plant_data(data, partial) ==
    LET keys == MissingFields(data, partial)
                  \cup (IF NameEmpty(data) THEN {"name"} ELSE {})
                  \cup (IF PriceNotNumber(data) THEN {"price"} ELSE {})
    IN  [f \in keys |->
            IF f = "price" /\ PriceNotNumber(data) THEN "Price must be a number"
            ELSE IF f = "name" /\ NameEmpty(data) THEN "Name cannot be empty"
            ELSE "This field is required"]

----------------------------------------------------------------------------
(* The Plant model and the store *)

PlantAttrs == {"id", "name", "image", "price", "is_in_stock"}
RowAttrs == {"name", "image", "price", "is_in_stock"}

\* hasattr(plant, attr)
HasAttr(attr) == attr \in PlantAttrs

\* the value column is_in_stock takes when Plant(...) is given none
DefaultInStock == Null

\* Plant.to_dict()
to_dict(id, row) ==
    [id |-> id, name |-> row.name, image |-> row.image,
     price |-> row.price, is_in_stock |-> row.is_in_stock]

Max(a, b) == IF a >= b THEN a ELSE b

\* the id the store gives the next inserted row
NewId(mx) == mx + 1

\* Plant.query.all() in the store's order (by id), each row as to_dict gives it
RECURSIVE QueryAll(_, _)
QueryAll(tbl, k) ==
    IF k > MaxId + 1 THEN <<>>
    ELSE IF k \in DOMAIN tbl THEN <<to_dict(k, tbl[k])>> \o QueryAll(tbl, k + 1)
    ELSE QueryAll(tbl, k + 1)

CommitOutcomes == {"ok", "IntegrityError", "OperationalError"}

----------------------------------------------------------------------------
(* Responses *)

NoErrors == <<>>

Response(status, kind, error, errors, data) ==
    [status |-> status, kind |-> kind, error |-> error, errors |-> errors,
     data |-> data, count |-> Len(data)]

ErrorResponse(status, error) == Response(status, "error", error, NoErrors, <<>>)

\* the app's 500 error handler, which answers an exception no handler catches
server_error == ErrorResponse(500, "Internal server error")

\* the outcome of one request: the store after it, the response, and how the
\* commit it reached ended ("none" when it reached none)
Result(tbl, exists, mx, r, o) ==
    [plants |-> tbl, tableExists |-> exists, maxId |-> mx, resp |-> r,
     outcome |-> o]

----------------------------------------------------------------------------
(* The session: a handler changes its session's view of the table (work),  *)
(* and db.session.commit() writes the view to the table or raises.         *)

\* db.session.commit(): all of the pending changes, or on a failure none
Commit(tbl, work, outcome) == IF outcome = "ok" THEN work ELSE tbl

\* variant: the pending changes survive the failed commit and are written
RollbackKeepsPending(tbl, work) == work

\* db.session.rollback() after a failed commit: the pending changes are dropped
Rollback(tbl, work) == tbl

\* an exception no handler catches ends the request; its session is discarded
Discard(tbl, work) == tbl

----------------------------------------------------------------------------
(* Plants: /plants *)

\* Plants.get
Plants_get(tbl, exists, mx) ==
    IF ~exists
    THEN Result(tbl, exists, mx, server_error, "none")
    ELSE Result(tbl, exists, mx,
                Response(200, "list", "", NoErrors, QueryAll(tbl, 1)), "none")

\* variant: is_in_stock is taken from the body too
new_plant_with_stock(data) ==
    [name |-> data["name"], image |-> data["image"], price |-> data["price"],
     is_in_stock |-> IF "is_in_stock" \in DOMAIN data
                     THEN data["is_in_stock"] ELSE DefaultInStock]

\* Plant(name=data['name'], image=data['image'], price=data['price'])
new_plant(data) ==
    [name |-> data["name"], image |-> data["image"], price |-> data["price"],
     is_in_stock |-> DefaultInStock]

\* Plants.post
Plants_post(tbl, exists, mx, data, outcome) ==
    IF DOMAIN data = {}
    THEN Result(tbl, exists, mx, ErrorResponse(400, "No data provided"), "none")
    ELSE IF validate_raises(data)
    THEN Result(tbl, exists, mx, server_error, "none")
    ELSE IF DOMAIN validate_plant_data(data, FALSE) # {}
    THEN Result(tbl, exists, mx,
                Response(400, "errors", "", validate_plant_data(data, FALSE), <<>>),
                "none")
    ELSE LET id == NewId(mx)
             work == (id :> new_plant(data)) @@ tbl
             o == IF exists THEN outcome ELSE "OperationalError"
             after == Commit(tbl, work, o)
         IN  CASE o = "ok" ->
                    Result(after, exists, id,
                           Response(201, "plant", "", NoErrors,
                                    <<to_dict(id, after[id])>>), o)
               [] o = "IntegrityError" ->
                    Result(Rollback(after, work), exists, mx,
                           ErrorResponse(500, "Database error occurred"), o)
               [] OTHER ->
                    Result(Discard(after, work), exists, mx, server_error, o)

----------------------------------------------------------------------------
(* PlantByID: /plants/<int:id> *)

test_plant ==
    [name |-> Str(<<"T", "e", "s", "t", " ", "P", "l", "a", "n", "t">>),
     image |-> Str(<<"t", "e", "s", "t", ".", "j", "p", "g">>),
     price |-> Num(SeedPrice),
     is_in_stock |-> Bool(TRUE)]

\* Plant.query.filter_by(id=id).first(), then the 404 or the plant
Lookup(tbl, exists, mx, id, o) ==
    IF id \notin DOMAIN tbl
    THEN Result(tbl, exists, mx,
                ErrorResponse(404, "Plant with id <id> not found"), o)
    ELSE Result(tbl, exists, mx,
                Response(200, "plant", "", NoErrors, <<to_dict(id, tbl[id])>>), o)

\* PlantByID.get
PlantByID_get(tbl, exists, mx, id, outcome) ==
    IF exists
    THEN Lookup(tbl, exists, mx, id, "none")
    ELSE \* db.create_all(), then the test plant is added and committed
         LET work == (SeedId :> test_plant) @@ tbl
             after == Commit(tbl, work, outcome)
         IN  IF outcome = "ok"
             THEN Lookup(after, TRUE, Max(mx, SeedId), id, outcome)
             ELSE Result(after, TRUE, mx,
                         ErrorResponse(500, "Server error occurred: <e>"), outcome)

\* variant: the body replaces the row, a column it lacks becoming null
MergeReplaces(row, data) ==
    [f \in RowAttrs |-> IF f \in DOMAIN data THEN data[f] ELSE Null]

\* for attr in data: if hasattr(plant, attr): setattr(plant, attr, data[attr])
Merge(row, data) ==
    [f \in RowAttrs |->
        IF f \in DOMAIN data /\ HasAttr(f) THEN data[f] ELSE row[f]]

\* the plant's id after the loop
MergedId(id, data) ==
    IF "id" \in DOMAIN data /\ HasAttr("id") THEN data["id"].n ELSE id

\* PlantByID.patch
PlantByID_patch(tbl, exists, mx, id, data, outcome) ==
    IF ~exists
    THEN Result(tbl, exists, mx, ErrorResponse(500, "Server error occurred"), "none")
    ELSE IF id \notin DOMAIN tbl
    THEN Result(tbl, exists, mx, ErrorResponse(404, "Plant not found"), "none")
    ELSE IF DOMAIN data = {}
    THEN Result(tbl, exists, mx, ErrorResponse(400, "No data provided"), "none")
    ELSE LET nid == MergedId(id, data)
             row == Merge(tbl[id], data)
             work == (nid :> row) @@ [k \in DOMAIN tbl \ {id} |-> tbl[k]]
             \* the primary key is unique: a second row with the id is refused
             o == IF nid # id /\ nid \in DOMAIN tbl THEN "IntegrityError" ELSE outcome
             after == Commit(tbl, work, o)
         IN  IF o = "ok"
             THEN Result(after, exists, Max(mx, nid),
                         Response(200, "plant", "", NoErrors,
                                  <<to_dict(nid, after[nid])>>), o)
             ELSE Result(Rollback(after, work), exists, mx,
                         ErrorResponse(500, "Server error occurred"), o)

\* PlantByID.delete
PlantByID_delete(tbl, exists, mx, id, outcome) ==
    IF ~exists
    THEN Result(tbl, exists, mx, server_error, "none")
    ELSE IF id \notin DOMAIN tbl
    THEN Result(tbl, exists, mx, ErrorResponse(404, "Plant not found"), "none")
    ELSE LET work == [k \in DOMAIN tbl \ {id} |-> tbl[k]]
             after == Commit(tbl, work, outcome)
         IN  CASE outcome = "ok" ->
                    Result(after, exists, mx,
                           Response(204, "empty", "", NoErrors, <<>>), outcome)
               [] outcome = "IntegrityError" ->
                    Result(Rollback(after, work), exists, mx,
                           ErrorResponse(500, "Database error occurred"), outcome)
               [] OTHER ->
                    Result(Discard(after, work), exists, mx, server_error, outcome)

----------------------------------------------------------------------------
(* The requests the model sends *)

Ids == 1 .. MaxId

NameA == Str(<<"a">>)
NamePadded == Str(<<" ", "a">>)
NameBlank == Str(<<" ", "\t">>)
NameNone == Str(<<>>)
NameNumber == Num(5)
ImageA == Str(<<"a", ".", "j", "p", "g">>)
NotANumber == Str(<<"x">>)
\* the prices 12.50 and 7, in hundredths
PriceA == Num(1250)
PriceB == Num(700)

\* the JSON object with the keys whose value is not Absent
Object(full) == [f \in {g \in DOMAIN full : full[g].t # "absent"} |-> full[f]]

Body(n, i, p, st) == Object([name |-> n, image |-> i, price |-> p, is_in_stock |-> st])

\* every subset of the required fields, with and without is_in_stock, and
\* bodies whose name or price the validator is to refuse
PostBodies ==
    { Body(n, i, p, Absent) :
        n \in {Absent, NameA}, i \in {Absent, ImageA}, p \in {Absent, PriceA} }
    \cup { Body(NameA, ImageA, PriceA, Bool(FALSE)),
           Body(Absent, Absent, Absent, Bool(FALSE)),
           Body(NamePadded, Absent, Absent, Absent),
           Body(NameBlank, ImageA, PriceA, Absent),
           Body(NameNone, ImageA, PriceA, Absent),
           Body(NameBlank, Absent, NotANumber, Absent),
           Body(NameA, ImageA, NotANumber, Absent),
           Body(NameA, ImageA, Null, Absent),
           Body(NameNumber, ImageA, PriceA, Absent),
           Body(NameNumber, Absent, Absent, Absent) }

Patch(n, p, k, e) == Object([name |-> n, price |-> p, id |-> k, extra |-> e])

PatchBodies ==
    { Patch(Absent, Absent, Absent, Absent),
      Patch(Absent, PriceB, Absent, Absent),
      Patch(Absent, NotANumber, Absent, Absent),
      Patch(NameBlank, Absent, Absent, Absent),
      Patch(Absent, Absent, Absent, Num(1)) }
    \cup { Patch(Absent, Absent, Num(k), Absent) : k \in Ids }

Request(op, id, data, o) == [op |-> op, id |-> id, data |-> data, outcome |-> o]

----------------------------------------------------------------------------
(* The state machine *)

Init ==
    /\ plants = <<>>
    /\ tableExists \in BOOLEAN
    /\ maxId = 0
    /\ last = Request("none", 0, EmptyBody, "none")
    /\ resp = Response(0, "none", "", NoErrors, <<>>)
    /\ created = 0
    /\ removed = 0
    /\ deleted = {}

\* the store and the response after a request whose outcome is r
Apply(op, id, data, r) ==
    /\ plants' = r.plants
    /\ tableExists' = r.tableExists
    /\ maxId' = r.maxId
    /\ resp' = r.resp
    /\ last' = Request(op, id, data, r.outcome)
    /\ created' = IF op = "post" /\ r.resp.status = 201 THEN created + 1 ELSE created
    /\ removed' = IF op = "delete" /\ r.resp.status = 204 THEN removed + 1 ELSE removed
    /\ deleted' = IF op = "delete" /\ r.resp.status = 204
                  THEN deleted \cup {id} ELSE deleted

\* the ways the commit of a request may end; a request that reaches no commit
\* has one outcome
Outcomes(commits) == IF commits THEN CommitOutcomes ELSE {"ok"}

post_commits(data) ==
    /\ DOMAIN data # {}
    /\ ~validate_raises(data)
    /\ DOMAIN validate_plant_data(data, FALSE) = {}

List ==
    \E r \in {Plants_get(plants, tableExists, maxId)} :
        Apply("list", 0, EmptyBody, r)

Create ==
    \E data \in PostBodies :
        \E o \in Outcomes(post_commits(data)) :
            \E r \in {Plants_post(plants, tableExists, maxId, data, o)} :
                /\ r.maxId <= MaxId
                /\ Apply("post", 0, data, r)

GetByID ==
    \E id \in Ids :
        \E o \in Outcomes(~tableExists) \ {"IntegrityError"} :
            \E r \in {PlantByID_get(plants, tableExists, maxId, id, o)} :
                Apply("get", id, EmptyBody, r)

Update ==
    \E id \in Ids, data \in PatchBodies :
        \E o \in Outcomes(id \in DOMAIN plants /\ DOMAIN data # {})
                   \ {"IntegrityError"} :
            \E r \in {PlantByID_patch(plants, tableExists, maxId, id, data, o)} :
                Apply("patch", id, data, r)

Delete ==
    \E id \in Ids :
        \E o \in Outcomes(id \in DOMAIN plants) :
            \E r \in {PlantByID_delete(plants, tableExists, maxId, id, o)} :
                Apply("delete", id, EmptyBody, r)

Next == List \/ Create \/ GetByID \/ Update \/ Delete

Spec == Init /\ [][Next]_vars

----------------------------------------------------------------------------
(* Properties *)

\* a JSON value that is a string of whitespace only (it trims to the empty string)
TrimsToEmpty(v) == v.t = "str" /\ \A k \in 1 .. Len(v.s) : IsSpace(v.s[k])

HasBlankName(data) == "name" \in DOMAIN data /\ TrimsToEmpty(data["name"])

\* C1: a Partial Update leaves the record under the id of the request: the
\* record is still stored under that id and is returned with that id.
C1_IdImmutable ==
    (last.op = "patch" /\ resp.status = 200)
        => /\ last.id \in DOMAIN plants
           /\ resp.data[1].id = last.id

\* C2: every persisted plant has a name that is a string with a character
\* other than whitespace, and a price that is a number.
C2_StoredDataValid ==
    \A i \in DOMAIN plants :
        /\ plants[i].name.t = "str"
        /\ ~TrimsToEmpty(plants[i].name)
        /\ plants[i].price.t = "num"

\* C3: a Create whose non-empty body lacks some of name, image and price is
\* answered 400 with an errors entry for each missing field, and adds no record.
C3_MissingFieldsReported ==
    [][(/\ last'.op = "post"
        /\ DOMAIN last'.data # {}
        /\ required_fields \ DOMAIN last'.data # {})
          => /\ resp'.status = 400
             /\ (required_fields \ DOMAIN last'.data) \subseteq DOMAIN resp'.errors
             /\ plants' = plants]_vars

C5_CreateThenGet ==
    (last.op = "post" /\ resp.status = 201)
        => LET got == PlantByID_get(plants, tableExists, maxId,
                                    resp.data[1].id, "ok").resp
           IN  /\ got.status = 200
               /\ got.data[1].id = resp.data[1].id
               /\ got.data[1].name = last.data["name"]
               /\ got.data[1].image = last.data["image"]
               /\ got.data[1].price = last.data["price"]
               /\ got.data[1].is_in_stock = DefaultInStock

C5_Witness ==
    /\ last.op = "post"
    /\ resp.status = 201
    /\ "is_in_stock" \in DOMAIN last.data
    /\ last.data["is_in_stock"] # DefaultInStock
    /\ plants[resp.data[1].id].price = PriceA

\* C6: a Partial Update whose body holds only price leaves the name, image and
\* is_in_stock of its record and every other record as they were, keeps the
\* record's id, and when its commit succeeds the record's price is the supplied one.
C6_PriceOnlyUpdate ==
    [][(/\ last'.op = "patch"
        /\ DOMAIN last'.data = {"price"}
        /\ last'.id \in DOMAIN plants)
          => /\ DOMAIN plants' = DOMAIN plants
             /\ \A k \in DOMAIN plants \ {last'.id} : plants'[k] = plants[k]
             /\ plants'[last'.id].name = plants[last'.id].name
             /\ plants'[last'.id].image = plants[last'.id].image
             /\ plants'[last'.id].is_in_stock = plants[last'.id].is_in_stock
             /\ last'.outcome = "ok"
                    => /\ resp'.status = 200
                       /\ plants'[last'.id].price = last'.data["price"]]_vars

C6_Witness ==
    /\ last.op = "patch"
    /\ DOMAIN last.data = {"price"}
    /\ resp.status = 200
    /\ Cardinality(DOMAIN plants) >= 2
    /\ plants[last.id].price = PriceB
    /\ plants[last.id].name = NameA

\* C7: once a Delete of id i was answered 204, every later Delete of i is
\* answered 404 and leaves the store as it was.
C7_DeleteIdempotent ==
    [][(last'.op = "delete" /\ last'.id \in deleted)
          => /\ resp'.status = 404
             /\ plants' = plants]_vars

\* C8: List answers with created - removed records, and with a count that is
\* the length of the returned data.
C8_ListCount ==
    (last.op = "list" /\ resp.status = 200)
        => /\ Len(resp.data) = created - removed
           /\ resp.count = created - removed

\* C9: a record whose Delete was answered 204 is never persisted again:
\* Get-by-ID on its id answers 404.
C9_DeletionTerminal ==
    \A i \in deleted :
        /\ i \notin DOMAIN plants
        /\ PlantByID_get(plants, tableExists, maxId, i, "ok").resp.status = 404

====
